---- MODULE Spec2Model ----
(***************************************************************************)
(* Kitchen stations (KitchenStation.cpp) and the station manager           *)
(* (StationManager.cpp) of the virtual bistro simulation.                  *)
(*                                                                         *)
(* A station is a record of its three members.  A Dish* is a dish address  *)
(* (DishIds); the heap `dish` maps an address to the dish living there.    *)
(* The manager's linked list of KitchenStation* is the sequence            *)
(* `stations`: every station is added freshly constructed, so a station    *)
(* pointer is identified with the station's position in the list.          *)
(***************************************************************************)
EXTENDS Integers, Sequences, FiniteSets, TLC

(***************************************************************************)
(* Bounds of the model.                                                    *)
(***************************************************************************)
\* stations in the collection (SpecCollection)
MaxStations == 3
\* stations in the kitchen (Spec)
MaxKitchen == 2
\* dish addresses
MaxDishes == 2
\* largest quantity in stock, all stations together (replenish is capped)
MaxQty == 2
\* largest required_quantity of a dish ingredient
MaxReq == 2
\* ingredients listed by one dish
MaxRecipeLen == 2

StationNames == {"A", "B"}
DishNames == {"X", "Y"}
IngredientNames == {"T", "L"}
DishIds == 1..MaxDishes

VARIABLES
    stations,    \* StationManager: the list of stations, front first
    dish,        \* the heap of Dish objects, by address
    doubleFreed  \* a dish address was deleted while holding no live dish

vars == <<stations, dish, doubleFreed>>

(***************************************************************************)
(* Ingredient and Dish values.                                             *)
(***************************************************************************)
Ingredient(name, quantity, required_quantity, price) ==
    [name |-> name, quantity |-> quantity,
     required_quantity |-> required_quantity, price |-> price]

\* What a dish lists per ingredient: the stations read only the name and the
\* required quantity of a dish ingredient.
Requirements ==
    {Ingredient(n, 0, r, 0) : n \in IngredientNames, r \in 0..MaxReq}

Recipes == UNION {[1..k -> Requirements] : k \in 0..MaxRecipeLen}

Dish(name, ingredients) ==
    [live |-> TRUE, name |-> name, ingredients |-> ingredients]

\* An address holding no live dish: never allocated, or deleted.
NoDish == [live |-> FALSE, name |-> "", ingredients |-> <<>>]

DishContents == {Dish(n, r) : n \in DishNames, r \in Recipes}

\* The dishes of the kitchen: each takes one "T".
Menu == {Dish(n, <<Ingredient("T", 0, 1, 0)>>) : n \in DishNames}

\* The dish and the supply that tell the stations of the collection apart.
PlainDishes == {Dish("X", <<>>)}

\* What replenish is called with.
Supplies == {Ingredient(n, q, 0, 0) : n \in IngredientNames, q \in 0..MaxQty}

PlainSupplies == {Ingredient("T", 1, 0, 0)}

Prices == {0, 1}

\* Supplies that differ in all four fields.
StockSupplies ==
    {Ingredient(n, q, r, p) :
        n \in IngredientNames, q \in 0..MaxQty, r \in 0..MaxReq, p \in Prices}

(***************************************************************************)
(* KitchenStation                                                          *)
(***************************************************************************)
KitchenStation(station_name) ==
    [station_name |-> station_name, dishes |-> <<>>, ingredients_stock |-> <<>>]

HasDish_LastOnly(station, d) ==
    station.dishes # <<>> /\ station.dishes[Len(station.dishes)] = d

HasDish(station, d) == \E i \in DOMAIN station.dishes : station.dishes[i] = d

assignDishToStation_NoCheck(station, d) ==
    [ret |-> TRUE, station |-> [station EXCEPT !.dishes = Append(@, d)]]

\* bool KitchenStation::assignDishToStation(Dish* dish)
assignDishToStation(station, d) ==
    IF HasDish(station, d)
    THEN [ret |-> FALSE, station |-> station]
    ELSE [ret |-> TRUE, station |-> [station EXCEPT !.dishes = Append(@, d)]]

\* Position of the first stock entry named `name`, 0 when there is none.
StockIndex(stock, name) ==
    IF \E i \in DOMAIN stock : stock[i].name = name
    THEN CHOOSE i \in DOMAIN stock :
            /\ stock[i].name = name
            /\ \A j \in 1..(i - 1) : stock[j].name # name
    ELSE 0

replenishStationIngredients_Push(station, ingredient) ==
    [station EXCEPT !.ingredients_stock = Append(@, ingredient)]

replenishStationIngredients_Overwrite(station, ingredient) ==
    LET i == StockIndex(station.ingredients_stock, ingredient.name)
    IN  IF i # 0
        THEN [station EXCEPT
                !.ingredients_stock[i].quantity = ingredient.quantity]
        ELSE [station EXCEPT !.ingredients_stock = Append(@, ingredient)]

replenishStationIngredients_FirstOnly(station, ingredient) ==
    LET i == StockIndex(station.ingredients_stock, ingredient.name)
    IN  IF i # 0
        THEN station
        ELSE [station EXCEPT !.ingredients_stock = Append(@, ingredient)]

replenishStationIngredients_Replace(station, ingredient) ==
    LET i == StockIndex(station.ingredients_stock, ingredient.name)
    IN  IF i # 0
        THEN [station EXCEPT
                !.ingredients_stock[i] =
                    [ingredient EXCEPT !.quantity = @ + station.ingredients_stock[i].quantity]]
        ELSE [station EXCEPT !.ingredients_stock = Append(@, ingredient)]

\* void KitchenStation::replenishStationIngredients(const Ingredient&)
replenishStationIngredients(station, ingredient) ==
    LET i == StockIndex(station.ingredients_stock, ingredient.name)
    IN  IF i # 0
        THEN [station EXCEPT
                !.ingredients_stock[i].quantity = @ + ingredient.quantity]
        ELSE [station EXCEPT !.ingredients_stock = Append(@, ingredient)]

\* Position in the roster of the first dish read as named `dish_name`, 0 when
\* there is none.  `heap` is what the call reads at each dish address.
DishIndex(station, heap, dish_name) ==
    IF \E i \in DOMAIN station.dishes : heap[station.dishes[i]].name = dish_name
    THEN CHOOSE i \in DOMAIN station.dishes :
            /\ heap[station.dishes[i]].name = dish_name
            /\ \A j \in 1..(i - 1) : heap[station.dishes[j]].name # dish_name
    ELSE 0

InStock_Strict(stock, ingredient) ==
    \E j \in DOMAIN stock :
        /\ stock[j].name = ingredient.name
        /\ stock[j].quantity > ingredient.required_quantity

\* The inner loop of canCompleteOrder: some stock entry of that name holds
\* at least the required quantity.
InStock(stock, ingredient) ==
    \E j \in DOMAIN stock :
        /\ stock[j].name = ingredient.name
        /\ stock[j].quantity >= ingredient.required_quantity

\* bool KitchenStation::canCompleteOrder(const std::string& dish_name) const
canCompleteOrder(station, heap, dish_name) ==
    LET i == DishIndex(station, heap, dish_name)
    IN  IF i = 0
        THEN FALSE
        ELSE LET ingredients == heap[station.dishes[i]].ingredients
             IN  \A k \in DOMAIN ingredients :
                    InStock(station.ingredients_stock, ingredients[k])

Clamp_None(quantity) == quantity

\* if (stock_ingredient.quantity <= 0) stock_ingredient.quantity = 0;
Clamp(quantity) == IF quantity <= 0 THEN 0 ELSE quantity

Consume_Front(stock, dish_ingredient) ==
    IF stock = <<>>
    THEN stock
    ELSE [stock EXCEPT
            ![1].quantity = Clamp(@ - dish_ingredient.required_quantity)]

\* One dish ingredient: the first stock entry of that name is decremented.
Consume(stock, dish_ingredient) ==
    LET i == StockIndex(stock, dish_ingredient.name)
    IN  IF i = 0
        THEN stock
        ELSE [stock EXCEPT
                ![i].quantity = Clamp(@ - dish_ingredient.required_quantity)]

RECURSIVE ConsumeIngredients(_, _)
\* for (const auto& dish_ingredient : dish_ingredients)
ConsumeIngredients(stock, dish_ingredients) ==
    IF dish_ingredients = <<>>
    THEN stock
    ELSE ConsumeIngredients(Consume(stock, Head(dish_ingredients)),
                            Tail(dish_ingredients))

RECURSIVE ConsumeDishes_First(_, _, _, _)
ConsumeDishes_First(stock, roster, heap, dish_name) ==
    IF roster = <<>>
    THEN stock
    ELSE IF heap[Head(roster)].name = dish_name
         THEN ConsumeIngredients(stock, heap[Head(roster)].ingredients)
         ELSE ConsumeDishes_First(stock, Tail(roster), heap, dish_name)

RECURSIVE ConsumeDishes(_, _, _, _)
\* for (Dish* dish : dishes_) if (dish->getName() == dish_name) ...: the loop
\* has no break, every dish of that name is consumed.
ConsumeDishes(stock, roster, heap, dish_name) ==
    IF roster = <<>>
    THEN stock
    ELSE ConsumeDishes(
            IF heap[Head(roster)].name = dish_name
            THEN ConsumeIngredients(stock, heap[Head(roster)].ingredients)
            ELSE stock,
            Tail(roster), heap, dish_name)

RemoveDepleted_Keep(stock) == stock

\* ingredients_stock_.erase(std::remove_if(... quantity == 0 ...))
RemoveDepleted(stock) == SelectSeq(stock, LAMBDA e : e.quantity # 0)

prepareDish_Unchecked(station, heap, dish_name) ==
    [ret |-> TRUE,
     station |-> [station EXCEPT !.ingredients_stock =
        RemoveDepleted(ConsumeDishes(@, station.dishes, heap, dish_name))]]

\* bool KitchenStation::prepareDish(const std::string& dish_name)
prepareDish(station, heap, dish_name) ==
    IF ~canCompleteOrder(station, heap, dish_name)
    THEN [ret |-> FALSE, station |-> station]
    ELSE [ret |-> TRUE,
          station |-> [station EXCEPT !.ingredients_stock =
             RemoveDepleted(ConsumeDishes(@, station.dishes, heap, dish_name))]]

(***************************************************************************)
(* The ordered list under the manager (LinkedList<KitchenStation*>):       *)
(* positions count from 0.                                                 *)
(***************************************************************************)
getLength(list) == Len(list)

getEntry(list, position) == list[position + 1]

insert(list, position, item) ==
    IF position \in 0..Len(list)
    THEN [ret |-> TRUE,
          list |-> SubSeq(list, 1, position) \o <<item>>
                   \o SubSeq(list, position + 1, Len(list))]
    ELSE [ret |-> FALSE, list |-> list]

remove(list, position) ==
    IF position \in 0..(Len(list) - 1)
    THEN [ret |-> TRUE,
          list |-> SubSeq(list, 1, position)
                   \o SubSeq(list, position + 2, Len(list))]
    ELSE [ret |-> FALSE, list |-> list]

(***************************************************************************)
(* StationManager.  A manager state m is the list with the heap it lives   *)
(* in: [stations, dish, doubleFreed].                                      *)
(***************************************************************************)
\* KitchenStation::~KitchenStation(): delete every dish of the roster.
DeleteStation(station, heap) ==
    [d \in DishIds |-> IF HasDish(station, d) THEN NoDish ELSE heap[d]]

\* The destructor deletes an address that holds no live dish.
DeletesDeadDish(station, heap) ==
    \E d \in DishIds : HasDish(station, d) /\ ~heap[d].live

addStation_Front(list, station) == insert(list, 0, station)

\* bool StationManager::addStation(KitchenStation* station)
addStation(list, station) == insert(list, getLength(list), station)

\* The nullptr of findStation.
NullStation == 0

findStation_Last(list, station_name) ==
    IF \E i \in 0..(getLength(list) - 1) :
            getEntry(list, i).station_name = station_name
    THEN 1 + CHOOSE i \in 0..(getLength(list) - 1) :
            /\ getEntry(list, i).station_name = station_name
            /\ \A j \in (i + 1)..(getLength(list) - 1) :
                  getEntry(list, j).station_name # station_name
    ELSE NullStation

\* KitchenStation* StationManager::findStation(const std::string&) const:
\* the pointer is the 1-based place of the station in the list.
findStation(list, station_name) ==
    IF \E i \in 0..(getLength(list) - 1) :
            getEntry(list, i).station_name = station_name
    THEN 1 + CHOOSE i \in 0..(getLength(list) - 1) :
            /\ getEntry(list, i).station_name = station_name
            /\ \A j \in 0..(i - 1) : getEntry(list, j).station_name # station_name
    ELSE NullStation

removeStation_Last(m, station_name) ==
    LET hits == {i \in 1..Len(m.stations) :
                    m.stations[i].station_name = station_name}
        p == CHOOSE i \in hits : \A j \in hits : j <= i
    IN  IF hits = {}
        THEN [ret |-> FALSE, m |-> m]
        ELSE [ret |-> TRUE,
              m |-> [stations |-> remove(m.stations, p - 1).list,
                     dish |-> DeleteStation(m.stations[p], m.dish),
                     doubleFreed |-> m.doubleFreed
                        \/ DeletesDeadDish(m.stations[p], m.dish)]]

removeStation_All(m, station_name) ==
    LET p == findStation(m.stations, station_name)
    IN  IF p = NullStation
        THEN [ret |-> FALSE, m |-> m]
        ELSE [ret |-> TRUE,
              m |-> [stations |-> SelectSeq(m.stations,
                        LAMBDA station : station.station_name # station_name),
                     dish |-> DeleteStation(m.stations[p], m.dish),
                     doubleFreed |-> m.doubleFreed
                        \/ DeletesDeadDish(m.stations[p], m.dish)]]

\* bool StationManager::removeStation(const std::string& station_name)
removeStation(m, station_name) ==
    LET p == findStation(m.stations, station_name)
    IN  IF p = NullStation
        THEN [ret |-> FALSE, m |-> m]
        ELSE [ret |-> remove(m.stations, p - 1).ret,
              m |-> [stations |-> remove(m.stations, p - 1).list,
                     dish |-> DeleteStation(m.stations[p], m.dish),
                     doubleFreed |-> m.doubleFreed
                        \/ DeletesDeadDish(m.stations[p], m.dish)]]

moveStationToFront_Swap(m, station_name) ==
    LET p == findStation(m.stations, station_name)
    IN  IF p = NullStation
        THEN [ret |-> FALSE, m |-> m]
        ELSE [ret |-> TRUE,
              m |-> [m EXCEPT !.stations =
                        [@ EXCEPT ![1] = m.stations[p], ![p] = m.stations[1]]]]

\* bool StationManager::moveStationToFront(const std::string& station_name)
moveStationToFront(m, station_name) ==
    LET p == findStation(m.stations, station_name)
    IN  IF p = NullStation
        THEN [ret |-> FALSE, m |-> m]
        ELSE LET detached == remove(m.stations, p - 1).list
                 front == insert(detached, 0, m.stations[p])
             IN  [ret |-> front.ret, m |-> [m EXCEPT !.stations = front.list]]

RECURSIVE clear(_)
\* LinkedList::clear() as the manager uses it for teardown: every station of
\* the list is destroyed, front first, and the list is left empty.
clear(m) ==
    IF m.stations = <<>>
    THEN m
    ELSE clear([stations |-> Tail(m.stations),
                dish |-> DeleteStation(Head(m.stations), m.dish),
                doubleFreed |-> m.doubleFreed
                    \/ DeletesDeadDish(Head(m.stations), m.dish)])

RECURSIVE AssignAll(_, _)
\* for (Dish* dish : station2->getDishes()) station1->assignDishToStation(dish);
AssignAll(station, roster) ==
    IF roster = <<>>
    THEN station
    ELSE AssignAll(assignDishToStation(station, Head(roster)).station,
                   Tail(roster))

RECURSIVE ReplenishAll(_, _)
\* for (const Ingredient& ingredient : station2->getIngredientsStock())
\*     station1->replenishStationIngredients(ingredient);
ReplenishAll(station, stock) ==
    IF stock = <<>>
    THEN station
    ELSE ReplenishAll(replenishStationIngredients(station, Head(stock)),
                      Tail(stock))

MergeGuard_NoSelfCheck(station1, station2) ==
    station1 # NullStation /\ station2 # NullStation

\* if (station1 && station2 && station1 != station2)
MergeGuard(station1, station2) ==
    station1 # NullStation /\ station2 # NullStation /\ station1 # station2

\* What station1 holds after the two loops of mergeStations.
Merged(station1, station2) ==
    ReplenishAll(AssignAll(station1, station2.dishes),
                 station2.ingredients_stock)

\* bool StationManager::mergeStations(station_name1, station_name2)
mergeStations(m, station_name1, station_name2) ==
    LET station1 == findStation(m.stations, station_name1)
        station2 == findStation(m.stations, station_name2)
    IN  IF MergeGuard(station1, station2)
        THEN [ret |-> TRUE,
              m |-> removeStation(
                      [m EXCEPT !.stations[station1] =
                          Merged(m.stations[station1], m.stations[station2])],
                      station_name2).m]
        ELSE [ret |-> FALSE, m |-> m]

\* bool StationManager::assignDishToStation(station_name, Dish* dish)
StationManager_assignDishToStation(m, station_name, d) ==
    LET p == findStation(m.stations, station_name)
    IN  IF p = NullStation
        THEN [ret |-> FALSE, m |-> m]
        ELSE [ret |-> assignDishToStation(m.stations[p], d).ret,
              m |-> [m EXCEPT !.stations[p] =
                        assignDishToStation(m.stations[p], d).station]]

replenishIngredientAtStation_Every(m, station_name, ingredient) ==
    [ret |-> findStation(m.stations, station_name) # NullStation,
     m |-> [m EXCEPT !.stations =
              [i \in DOMAIN m.stations |->
                  IF m.stations[i].station_name = station_name
                  THEN replenishStationIngredients(m.stations[i], ingredient)
                  ELSE m.stations[i]]]]

\* bool StationManager::replenishIngredientAtStation(station_name, ingredient)
replenishIngredientAtStation(m, station_name, ingredient) ==
    LET p == findStation(m.stations, station_name)
    IN  IF p = NullStation
        THEN [ret |-> FALSE, m |-> m]
        ELSE [ret |-> TRUE,
              m |-> [m EXCEPT !.stations[p] =
                        replenishStationIngredients(m.stations[p], ingredient)]]

StationManager_canCompleteOrder_FirstOnly(m, heap, dish_name) ==
    /\ getLength(m.stations) > 0
    /\ canCompleteOrder(getEntry(m.stations, 0), heap, dish_name)

\* bool StationManager::canCompleteOrder(const std::string& dish_name) const
StationManager_canCompleteOrder(m, heap, dish_name) ==
    \E i \in 0..(getLength(m.stations) - 1) :
        canCompleteOrder(getEntry(m.stations, i), heap, dish_name)

\* bool StationManager::prepareDishAtStation(station_name, dish_name)
prepareDishAtStation(m, heap, station_name, dish_name) ==
    LET p == findStation(m.stations, station_name)
    IN  IF p = NullStation
        THEN [ret |-> FALSE, m |-> m]
        ELSE [ret |-> prepareDish(m.stations[p], heap, dish_name).ret,
              m |-> [m EXCEPT !.stations[p] =
                        prepareDish(m.stations[p], heap, dish_name).station]]

(***************************************************************************)
(* The state machine.  The actions take the sets their inputs are drawn    *)
(* from; the three specifications below differ in these sets only.         *)
(***************************************************************************)
Manager == [stations |-> stations, dish |-> dish, doubleFreed |-> doubleFreed]

Become(m) ==
    /\ stations' = m.stations
    /\ dish' = m.dish
    /\ doubleFreed' = m.doubleFreed

\* What a call may read at each dish address, when it reads the rosters of
\* the stations `read`.  A live dish is read as it is; reading through a
\* pointer to a deleted dish is undefined and yields any contents of
\* `garbage`.  Addresses in none of the rosters are not read.
Reads(read, garbage) ==
    LET at(d) == IF (\E i \in DOMAIN read : HasDish(read[i], d)) /\ ~dish[d].live
                 THEN garbage
                 ELSE {dish[d]}
    IN  {heap \in [DishIds -> UNION {at(d) : d \in DishIds}] :
            \A d \in DishIds : heap[d] \in at(d)}

RECURSIVE StockTotal(_)
StockTotal(stock) ==
    IF stock = <<>> THEN 0 ELSE Head(stock).quantity + StockTotal(Tail(stock))

RECURSIVE KitchenTotal(_)
\* The quantity in stock, all stations together: what MaxQty caps.
KitchenTotal(list) ==
    IF list = <<>>
    THEN 0
    ELSE StockTotal(Head(list).ingredients_stock) + KitchenTotal(Tail(list))

\* manager.addStation(new KitchenStation(station_name))
AddStation(station_name, limit) ==
    /\ getLength(stations) < limit
    /\ stations' = addStation(stations, KitchenStation(station_name)).list
    /\ UNCHANGED <<dish, doubleFreed>>

RemoveStation(station_name) ==
    /\ station_name \in StationNames
    /\ Become(removeStation(Manager, station_name).m)

FindStation(station_name) ==
    /\ findStation(stations, station_name) \in 0..getLength(stations)
    /\ UNCHANGED vars

MoveStationToFront(station_name) ==
    /\ station_name \in StationNames
    /\ Become(moveStationToFront(Manager, station_name).m)

MergeStations(station_name1, station_name2) ==
    /\ {station_name1, station_name2} \subseteq StationNames
    /\ Become(mergeStations(Manager, station_name1, station_name2).m)

\* manager.clear(), also what ~StationManager() runs.
Clear ==
    LET m == clear(Manager)
    IN  /\ stations' = m.stations
        /\ dish' = m.dish
        /\ doubleFreed' = m.doubleFreed

\* station->assignDishToStation(new Dish(...)): the new dish is placed at an
\* address that holds no live dish, possibly one a roster still points to.
AssignNewDish(i, a, contents) ==
    /\ i \in DOMAIN stations
    /\ ~dish[a].live
    /\ dish' = [dish EXCEPT ![a] = contents]
    /\ stations' = [stations EXCEPT ![i] = assignDishToStation(@, a).station]
    /\ UNCHANGED doubleFreed

\* station->assignDishToStation(dish) with a dish already in use.
AssignDish(i, d) ==
    /\ i \in DOMAIN stations
    /\ dish[d].live
    /\ stations' = [stations EXCEPT ![i] = assignDishToStation(@, d).station]
    /\ UNCHANGED <<dish, doubleFreed>>

Replenish(i, ingredient) ==
    /\ i \in DOMAIN stations
    /\ KitchenTotal(stations) + ingredient.quantity <= MaxQty
    /\ stations' = [stations EXCEPT
                      ![i] = replenishStationIngredients(@, ingredient)]
    /\ UNCHANGED <<dish, doubleFreed>>

CanCompleteOrder(i, dish_name, garbage) ==
    /\ i \in DOMAIN stations
    /\ \E heap \in Reads(<<stations[i]>>, garbage) :
            canCompleteOrder(stations[i], heap, dish_name) \in BOOLEAN
    /\ UNCHANGED vars

PrepareDish(i, dish_name, garbage) ==
    /\ i \in DOMAIN stations
    /\ \E heap \in Reads(<<stations[i]>>, garbage) :
            stations' = [stations EXCEPT
                           ![i] = prepareDish(@, heap, dish_name).station]
    /\ UNCHANGED <<dish, doubleFreed>>

AssignDishToStation(station_name, d) ==
    /\ dish[d].live
    /\ Become(StationManager_assignDishToStation(Manager, station_name, d).m)

ReplenishIngredientAtStation(station_name, ingredient) ==
    /\ KitchenTotal(stations) + ingredient.quantity <= MaxQty
    /\ Become(replenishIngredientAtStation(Manager, station_name, ingredient).m)

ManagerCanCompleteOrder(dish_name, garbage) ==
    /\ \E heap \in Reads(stations, garbage) :
            StationManager_canCompleteOrder(Manager, heap, dish_name) \in BOOLEAN
    /\ UNCHANGED vars

PrepareDishAtStation(station_name, dish_name, garbage) ==
    /\ station_name \in StationNames
    /\ \E heap \in Reads(stations, garbage) :
          Become(prepareDishAtStation(Manager, heap, station_name, dish_name).m)

\* The calls on one station, through a pointer the caller kept.
StationStep(contents, supplies) ==
    \/ \E i \in 1..MaxStations, a \in DishIds, c \in contents :
            AssignNewDish(i, a, c)
    \/ \E i \in 1..MaxStations, d \in DishIds : AssignDish(i, d)
    \/ \E i \in 1..MaxStations, g \in supplies : Replenish(i, g)
    \/ \E i \in 1..MaxStations, n \in DishNames : CanCompleteOrder(i, n, contents)
    \/ \E i \in 1..MaxStations, n \in DishNames : PrepareDish(i, n, contents)

\* The calls on the manager.
ManagerStep(limit, contents, supplies) ==
    \/ \E s \in StationNames : AddStation(s, limit)
    \/ \E s \in StationNames : RemoveStation(s)
    \/ \E s \in StationNames : FindStation(s)
    \/ \E s \in StationNames : MoveStationToFront(s)
    \/ \E s, t \in StationNames : MergeStations(s, t)
    \/ Clear
    \/ \E s \in StationNames, d \in DishIds : AssignDishToStation(s, d)
    \/ \E s \in StationNames, g \in supplies : ReplenishIngredientAtStation(s, g)
    \/ \E n \in DishNames : ManagerCanCompleteOrder(n, contents)
    \/ \E s \in StationNames, n \in DishNames :
            PrepareDishAtStation(s, n, contents)

Init ==
    /\ stations = <<>>
    /\ dish = [d \in DishIds |-> NoDish]
    /\ doubleFreed = FALSE

\* The kitchen: up to MaxKitchen stations, the dishes of Menu, every supply.
Next == ManagerStep(MaxKitchen, Menu, Supplies) \/ StationStep(Menu, Supplies)

Spec == Init /\ [][Next]_vars

\* The collection: up to MaxStations stations, told apart by one plain dish
\* and one plain supply.
NextCollection ==
    ManagerStep(MaxStations, PlainDishes, PlainSupplies)
        \/ StationStep(PlainDishes, PlainSupplies)

SpecCollection == Init /\ [][NextCollection]_vars

\* One station on its own, with every dish of DishContents.
InitStation ==
    /\ stations = <<KitchenStation("A")>>
    /\ dish = [d \in DishIds |-> NoDish]
    /\ doubleFreed = FALSE

NextStation == StationStep(DishContents, Supplies)

SpecStation == InitStation /\ [][NextStation]_vars

\* One station on its own, replenished with every supply of StockSupplies.
NextStock == StationStep(PlainDishes, StockSupplies)

SpecStock == InitStation /\ [][NextStock]_vars

(***************************************************************************)
(* Notions the properties are stated with.                                 *)
(***************************************************************************)
RosterSet(station) == {station.dishes[i] : i \in DOMAIN station.dishes}

StockNames(stock) == {stock[k].name : k \in DOMAIN stock}

RECURSIVE QuantityOf(_, _)
\* The quantity of `name` in a stock, an absent entry counting as 0.
QuantityOf(stock, name) ==
    IF stock = <<>>
    THEN 0
    ELSE (IF Head(stock).name = name THEN Head(stock).quantity ELSE 0)
            + QuantityOf(Tail(stock), name)

RECURSIVE RequiredOf(_, _)
\* What a dish requires of `name`, over all its listings of that name.
RequiredOf(ingredients, name) ==
    IF ingredients = <<>>
    THEN 0
    ELSE (IF Head(ingredients).name = name
          THEN Head(ingredients).required_quantity ELSE 0)
            + RequiredOf(Tail(ingredients), name)

\* The roster places of the dishes named `dish_name`.
DishesNamed(station, heap, dish_name) ==
    {i \in DOMAIN station.dishes : heap[station.dishes[i]].name = dish_name}

StationsNamed(list, station_name) ==
    {i \in DOMAIN list : list[i].station_name = station_name}

RECURSIVE DemandOf(_, _, _, _)
\* What the dishes named `dish_name` of a roster require of `name` together.
DemandOf(roster, heap, dish_name, name) ==
    IF roster = <<>>
    THEN 0
    ELSE (IF heap[Head(roster)].name = dish_name
          THEN RequiredOf(heap[Head(roster)].ingredients, name) ELSE 0)
            + DemandOf(Tail(roster), heap, dish_name, name)

\* A list without its place p.
Without(list, p) == SubSeq(list, 1, p - 1) \o SubSeq(list, p + 1, Len(list))

(***************************************************************************)
(* Properties.  A property of a call is stated of every call the state     *)
(* admits: the call's result is computed from the state by the operator    *)
(* that models it.                                                         *)
(***************************************************************************)

\* C1: in every reachable state, after any sequence of replenish (with
\* non-negative quantities), prepare, merge and prepareAt, every stock entry
\* of every station has a quantity >= 0.
C1_QuantityNeverNegative ==
    \A i \in DOMAIN stations :
        \A k \in DOMAIN stations[i].ingredients_stock :
            stations[i].ingredients_stock[k].quantity >= 0

\* C1 witness: a station can prepare a dish name whose dishes together take
\* more of an ingredient than the stock holds, so the decrement is clamped.
C1_Witness ==
    \E i \in DOMAIN stations, n \in DishNames, g \in IngredientNames :
        LET station == stations[i]
            stock == station.ingredients_stock
        IN  /\ \A d \in RosterSet(station) : dish[d].live
            /\ prepareDish(station, dish, n).ret
            /\ QuantityOf(stock, g) > 0
            /\ DemandOf(station.dishes, dish, n, g) > QuantityOf(stock, g)
            /\ QuantityOf(prepareDish(station, dish, n).station.ingredients_stock,
                          g) = 0

\* C10: in every reachable state, after any sequence of replenish, prepare
\* and merge, no two entries of one station's stock share an ingredient name.
C10_StockNamesUnique ==
    \A i \in DOMAIN stations :
        LET stock == stations[i].ingredients_stock
        IN  \A j, k \in DOMAIN stock : stock[j].name = stock[k].name => j = k

\* C10 witness: a merge folds a stock into another that holds the same
\* ingredient name, and the merged stock still has one entry per name.
C10_Witness ==
    \E a, b \in StationNames :
        LET r == mergeStations(Manager, a, b)
            p1 == findStation(stations, a)
            p2 == findStation(stations, b)
        IN  /\ r.ret
            /\ StockNames(stations[p1].ingredients_stock)
                 \cap StockNames(stations[p2].ingredients_stock) # {}
            /\ Len(stations[p2].ingredients_stock) > 1
            /\ C10_StockNamesUnique

\* C3: no station held by the collection ever has in its roster a dish that
\* has been deallocated; in particular the dishes a merge takes over are
\* still live once the merged-away station is destroyed.
C3_NoDeallocatedDishInRoster ==
    \A i \in DOMAIN stations :
        \A d \in RosterSet(stations[i]) : dish[d].live

\* C4 as stated: after merge(A, B) returns true, find(B) returns not-found,
\* also in a collection that holds more than one station named B.
C4_FindAfterMergeNotFound ==
    \A a, b \in StationNames :
        LET r == mergeStations(Manager, a, b)
        IN  r.ret => findStation(r.m.stations, b) = NullStation

\* C4 as amended: after merge(A, B) returns true, exactly the first station
\* named B is gone.  find(B) returns not-found if and only if the collection
\* held exactly one station named B before the merge; otherwise it returns
\* the next station named B, as that station was before the merge.
C4_MergeRemovesFirstNamed ==
    \A a, b \in StationNames :
        LET r == mergeStations(Manager, a, b)
            rest == Without(stations, findStation(stations, b))
            q == findStation(r.m.stations, b)
        IN  r.ret =>
                /\ Len(r.m.stations) = Len(stations) - 1
                /\ q = findStation(rest, b)
                /\ (q = NullStation)
                      <=> (Cardinality(StationsNamed(stations, b)) = 1)
                /\ q # NullStation => r.m.stations[q] = rest[q]

\* C4 witness: a merge succeeds in a collection holding two stations named
\* B that differ in what they hold.
C4_Witness ==
    \E a, b \in StationNames :
        /\ mergeStations(Manager, a, b).ret
        /\ \E i, j \in StationsNamed(stations, b) :
              i # j /\ stations[i] # stations[j]
        /\ findStation(mergeStations(Manager, a, b).m.stations, b) # NullStation

\* C5: after merge(A, B) returns true, the roster of the station found under
\* A contains (by address) every dish that was in A's roster and every dish
\* that was in B's roster before the merge, no other dish, and no dish twice.
C5_MergedRosterIsUnion ==
    \A a, b \in StationNames :
        LET r == mergeStations(Manager, a, b)
            station1 == stations[findStation(stations, a)]
            station2 == stations[findStation(stations, b)]
            merged == r.m.stations[findStation(r.m.stations, a)]
        IN  r.ret =>
                /\ RosterSet(merged) = RosterSet(station1) \cup RosterSet(station2)
                /\ \A i, j \in DOMAIN merged.dishes :
                      merged.dishes[i] = merged.dishes[j] => i = j

\* C5 witness: a merge succeeds where B's roster holds a dish that is also
\* in A's roster and a dish that is not.
C5_Witness ==
    \E a, b \in StationNames :
        LET station1 == stations[findStation(stations, a)]
            station2 == stations[findStation(stations, b)]
        IN  /\ mergeStations(Manager, a, b).ret
            /\ RosterSet(station1) \cap RosterSet(station2) # {}
            /\ RosterSet(station2) \ RosterSet(station1) # {}

\* C6: after merge(A, B) returns true, for every ingredient name n the
\* quantity of n in A's stock is the quantity of n in A's stock plus the
\* quantity of n in B's stock before the merge, an absent entry counting 0.
C6_MergedStockIsSum ==
    \A a, b \in StationNames :
        LET r == mergeStations(Manager, a, b)
            station1 == stations[findStation(stations, a)]
            station2 == stations[findStation(stations, b)]
            merged == r.m.stations[findStation(r.m.stations, a)]
        IN  r.ret =>
                \A n \in IngredientNames :
                    QuantityOf(merged.ingredients_stock, n)
                        = QuantityOf(station1.ingredients_stock, n)
                            + QuantityOf(station2.ingredients_stock, n)

\* C6 witness: a merge succeeds where both stocks hold a positive quantity
\* of one ingredient and B's stock holds an ingredient A's stock lacks.
C6_Witness ==
    \E a, b \in StationNames :
        LET stock1 == stations[findStation(stations, a)].ingredients_stock
            stock2 == stations[findStation(stations, b)].ingredients_stock
        IN  /\ mergeStations(Manager, a, b).ret
            /\ \E n \in IngredientNames :
                  QuantityOf(stock1, n) > 0 /\ QuantityOf(stock2, n) > 0
            /\ StockNames(stock2) \ StockNames(stock1) # {}

\* C7: merge(A, A), and merge(A, B) where either name resolves to no
\* station, return false and leave the whole collection unchanged: the same
\* stations in the same order with the same rosters and stocks, and no
\* station (so no dish) destroyed.
C7_DegenerateMergeChangesNothing ==
    \A a, b \in StationNames :
        LET r == mergeStations(Manager, a, b)
        IN  (\/ a = b
             \/ findStation(stations, a) = NullStation
             \/ findStation(stations, b) = NullStation)
                => ~r.ret /\ r.m = Manager

\* C7 witness: a station with a dish and a stock is asked to merge with
\* itself, while another name resolves to no station.
C7_Witness ==
    \E a, b \in StationNames :
        /\ findStation(stations, a) # NullStation
        /\ findStation(stations, b) = NullStation
        /\ stations[findStation(stations, a)].dishes # <<>>
        /\ stations[findStation(stations, a)].ingredients_stock # <<>>
        /\ ~mergeStations(Manager, a, a).ret
        /\ ~mergeStations(Manager, a, b).ret
        /\ ~mergeStations(Manager, b, a).ret

\* C2: whenever prepare(d) returns true, for every ingredient the dish d
\* (the first dish of that name in the roster) requires, the stock quantity
\* of that ingredient name after the call is its quantity before the call
\* minus exactly the required amount, or the entry is absent if that
\* difference is 0; for every roster, also one with several dishes of the
\* same name or a dish listing an ingredient name more than once.  For an
\* ingredient name the dish lists more than once, the required amount is
\* taken either way: of the one listing, or of all listings together.
C2_PrepareTakesExactlyRequired ==
    \A i \in DOMAIN stations, n \in DishNames :
        LET station == stations[i]
            r == prepareDish(station, dish, n)
            ingredients ==
                dish[station.dishes[DishIndex(station, dish, n)]].ingredients
            before == station.ingredients_stock
            after == r.station.ingredients_stock
            Left(g, left) ==
                IF left = 0
                THEN g \notin StockNames(after)
                ELSE g \in StockNames(after) /\ QuantityOf(after, g) = left
        IN  r.ret =>
                \A k \in DOMAIN ingredients :
                    LET g == ingredients[k].name
                    IN  \/ Left(g, QuantityOf(before, g)
                                     - ingredients[k].required_quantity)
                        \/ Left(g, QuantityOf(before, g)
                                     - RequiredOf(ingredients, g))

\* C8 as stated: canComplete(dishName) returns true if and only if a dish
\* named dishName is in the roster and, for every ingredient that dish
\* requires, the stock has an entry of the same name with quantity >= the
\* required quantity.
C8_CanCompleteIffSomeDishInStock ==
    \A i \in DOMAIN stations, n \in DishNames :
        LET station == stations[i]
        IN  canCompleteOrder(station, dish, n)
                <=> \E j \in DishesNamed(station, dish, n) :
                        \A k \in DOMAIN dish[station.dishes[j]].ingredients :
                            \E e \in DOMAIN station.ingredients_stock :
                                /\ station.ingredients_stock[e].name
                                     = dish[station.dishes[j]].ingredients[k].name
                                /\ station.ingredients_stock[e].quantity
                                     >= dish[station.dishes[j]].ingredients[k]
                                            .required_quantity

\* C8 as amended: canComplete(dishName) returns true if and only if a dish
\* named dishName is in the roster and, for every ingredient that the first
\* such dish in roster order requires, the stock has an entry of the same
\* name with quantity >= the required quantity; it returns false whenever no
\* dish named dishName is in the roster, whatever the stock holds.
C8_CanCompleteIffFirstDishInStock ==
    \A i \in DOMAIN stations, n \in DishNames :
        LET station == stations[i]
            named == DishesNamed(station, dish, n)
        IN  /\ named = {} => ~canCompleteOrder(station, dish, n)
            /\ canCompleteOrder(station, dish, n)
                <=> \E j \in named :
                        /\ \A h \in named : j <= h
                        /\ \A k \in DOMAIN dish[station.dishes[j]].ingredients :
                            \E e \in DOMAIN station.ingredients_stock :
                                /\ station.ingredients_stock[e].name
                                     = dish[station.dishes[j]].ingredients[k].name
                                /\ station.ingredients_stock[e].quantity
                                     >= dish[station.dishes[j]].ingredients[k]
                                            .required_quantity

\* C8 witness: the roster holds two dishes of one name; the stock covers the
\* first, which takes exactly what one entry holds, and not the second.
C8_Witness ==
    \E i \in DOMAIN stations, n \in DishNames :
        LET station == stations[i]
            first == dish[station.dishes[1]]
            second == dish[station.dishes[2]]
        IN  /\ Len(station.dishes) = 2
            /\ first.name = n /\ second.name = n
            /\ canCompleteOrder(station, dish, n)
            /\ \E k \in DOMAIN first.ingredients :
                  first.ingredients[k].required_quantity > 0
                  /\ QuantityOf(station.ingredients_stock, first.ingredients[k].name)
                       = first.ingredients[k].required_quantity
            /\ \E k \in DOMAIN second.ingredients :
                  ~InStock(station.ingredients_stock, second.ingredients[k])

\* C9: when canComplete(dishName) is false for a station, prepare(dishName)
\* on that station returns false and leaves the station's stock (entries,
\* quantities, order) and roster unchanged.
C9_InfeasiblePrepareChangesNothing ==
    \A i \in DOMAIN stations, n \in DishNames :
        LET station == stations[i]
            r == prepareDish(station, dish, n)
        IN  ~canCompleteOrder(station, dish, n)
                => /\ ~r.ret
                   /\ r.station.ingredients_stock = station.ingredients_stock
                   /\ r.station.dishes = station.dishes

\* C9 witness: a dish of the roster cannot be completed although the stock
\* holds some of each ingredient it requires, next to a depleted entry.
C9_Witness ==
    \E i \in DOMAIN stations, n \in DishNames :
        LET station == stations[i]
            stock == station.ingredients_stock
            j == DishIndex(station, dish, n)
        IN  /\ j # 0
            /\ ~canCompleteOrder(station, dish, n)
            /\ ~prepareDish(station, dish, n).ret
            /\ \E k \in DOMAIN dish[station.dishes[j]].ingredients :
                  QuantityOf(stock, dish[station.dishes[j]].ingredients[k].name) > 0
            /\ \E e \in DOMAIN stock : stock[e].quantity = 0

\* The place of the first station named `station_name`, 0 when there is none.
FirstNamed(list, station_name) ==
    IF StationsNamed(list, station_name) = {}
    THEN 0
    ELSE CHOOSE i \in StationsNamed(list, station_name) :
            \A j \in StationsNamed(list, station_name) : i <= j

\* C11: in every reachable state a station's roster holds no dish reference
\* twice: assignDish of a dish reference already in the roster returns false
\* and leaves the roster (length and order) unchanged, and assignDish of a
\* reference not in the roster returns true and appends it at the end.
C11_RosterHoldsNoDishTwice ==
    \A i \in DOMAIN stations :
        LET station == stations[i]
        IN  /\ \A j, k \in DOMAIN station.dishes :
                  station.dishes[j] = station.dishes[k] => j = k
            /\ \A d \in DishIds :
                  LET r == assignDishToStation(station, d)
                  IN  IF d \in RosterSet(station)
                      THEN ~r.ret /\ r.station.dishes = station.dishes
                      ELSE r.ret /\ r.station.dishes = Append(station.dishes, d)

\* C11 witness: a roster of two dishes, appended one after the other, is
\* offered its first dish again and refuses it, while another station takes
\* that dish.
C11_Witness ==
    \E i, j \in DOMAIN stations, d \in DishIds :
        /\ Len(stations[i].dishes) = 2
        /\ stations[i].dishes[1] = d
        /\ ~assignDishToStation(stations[i], d).ret
        /\ d \notin RosterSet(stations[j])
        /\ assignDishToStation(stations[j], d).ret

\* C12: when moveToFront(X) finds a station named X, it returns true, the
\* first station named X becomes index 0, the collection length is unchanged
\* and all other stations keep their relative order; when no station is
\* named X it returns false and the sequence is unchanged.
C12_MoveToFrontKeepsOrderOfOthers ==
    \A x \in StationNames :
        LET r == moveStationToFront(Manager, x)
            p == FirstNamed(stations, x)
        IN  IF p # 0
            THEN /\ r.ret
                 /\ Len(r.m.stations) = Len(stations)
                 /\ r.m.stations[1] = stations[p]
                 /\ Without(r.m.stations, 1) = Without(stations, p)
                 /\ r.m.dish = dish
            ELSE ~r.ret /\ r.m = Manager

\* C12 witness: the first station named X is the last of three, behind two
\* stations that differ, and another station named like these two stays
\* where it is when its name is moved to the front.
C12_Witness ==
    \E x, y \in StationNames :
        /\ Len(stations) = 3
        /\ FirstNamed(stations, x) = 3
        /\ stations[1] # stations[2]
        /\ moveStationToFront(Manager, x).m.stations
              = <<stations[3], stations[1], stations[2]>>
        /\ moveStationToFront(Manager, y).m.stations = stations

\* C13: replenishing a station with the same ingredient name twice, with
\* quantities q1 then q2, yields the same final stock quantity for that name
\* as a single replenish with q1 + q2, from any starting stock, and the
\* result does not depend on the order of q1 and q2.
C13_ReplenishTwiceIsReplenishSum ==
    \A i \in DOMAIN stations, g1, g2 \in StockSupplies :
        g1.name = g2.name =>
            LET station == stations[i]
                n == g1.name
                sum == [g1 EXCEPT !.quantity = g1.quantity + g2.quantity]
                twice == replenishStationIngredients(
                            replenishStationIngredients(station, g1), g2)
                swapped == replenishStationIngredients(
                              replenishStationIngredients(station, g2), g1)
                once == replenishStationIngredients(station, sum)
            IN  /\ QuantityOf(twice.ingredients_stock, n)
                     = QuantityOf(once.ingredients_stock, n)
                /\ QuantityOf(swapped.ingredients_stock, n)
                     = QuantityOf(twice.ingredients_stock, n)
                /\ QuantityOf(twice.ingredients_stock, n)
                     = QuantityOf(station.ingredients_stock, n)
                         + g1.quantity + g2.quantity

\* C13 witness: a stock that holds a positive quantity of one ingredient and
\* nothing of another; two replenishes of 1 and 2 leave either with 3 more.
C13_Witness ==
    \E i \in DOMAIN stations, n, o \in IngredientNames :
        LET station == stations[i]
            Twice(g) == replenishStationIngredients(
                            replenishStationIngredients(
                                station, Ingredient(g, 1, 0, 0)),
                            Ingredient(g, 2, 1, 1)).ingredients_stock
        IN  /\ QuantityOf(station.ingredients_stock, n) > 0
            /\ o \notin StockNames(station.ingredients_stock)
            /\ QuantityOf(Twice(n), n)
                  = QuantityOf(station.ingredients_stock, n) + 3
            /\ QuantityOf(Twice(o), o) = 3

\* C14: remove(name) removes exactly the first station (from the front)
\* whose name matches, returns true, decreases the length by one and keeps
\* the relative order of all remaining stations; when no station matches it
\* returns false and the collection is unchanged.
C14_RemoveTakesFirstNamed ==
    \A x \in StationNames :
        LET r == removeStation(Manager, x)
            p == FirstNamed(stations, x)
        IN  IF p # 0
            THEN /\ r.ret
                 /\ Len(r.m.stations) = Len(stations) - 1
                 /\ r.m.stations = Without(stations, p)
            ELSE ~r.ret /\ r.m = Manager

\* C14 witness: of two stations of one name that differ, behind a station of
\* another name, remove leaves the second where it follows the front one.
C14_Witness ==
    \E x \in StationNames :
        /\ Len(stations) = 3
        /\ StationsNamed(stations, x) = {2, 3}
        /\ stations[2] # stations[3]
        /\ removeStation(Manager, x).ret
        /\ removeStation(Manager, x).m.stations = <<stations[1], stations[3]>>

\* C15: the manager's canComplete(dishName) returns true if and only if at
\* least one station currently in the collection returns true for its own
\* canComplete(dishName), and the call changes no station's roster or stock
\* and not the sequence order.  Both sides read the dishes as one reading of
\* the memory shows them; the call is const and yields a truth value only.
C15_ManagerCanCompleteIffSomeStationCan ==
    \A n \in DishNames, heap \in Reads(stations, Menu) :
        /\ StationManager_canCompleteOrder(Manager, heap, n) \in BOOLEAN
        /\ StationManager_canCompleteOrder(Manager, heap, n)
              <=> \E i \in DOMAIN stations :
                      canCompleteOrder(stations[i], heap, n)

\* C15 witness: the front station holds the dish but not the stock for it,
\* the station behind it can complete it, and no station holds another dish
\* name: the manager answers true for the one name and false for the other.
C15_Witness ==
    \E n, o \in DishNames :
        /\ Len(stations) = 2
        /\ C3_NoDeallocatedDishInRoster
        /\ DishIndex(stations[1], dish, n) # 0
        /\ ~canCompleteOrder(stations[1], dish, n)
        /\ canCompleteOrder(stations[2], dish, n)
        /\ StationManager_canCompleteOrder(Manager, dish, n)
        /\ ~StationManager_canCompleteOrder(Manager, dish, o)

\* C16: the manager's assignDish(stationName, dish), replenish(stationName,
\* ingredient) and prepareAt(stationName, dishName) return false and leave
\* every station and the sequence unchanged when no station is named
\* stationName; otherwise they act on the first station with that name and
\* return that station's assignDish result, true, and that station's prepare
\* result respectively.
C16_ManagerCallsActOnFirstNamed ==
    \A s \in StationNames :
        LET p == FirstNamed(stations, s)
            On(station) == [Manager EXCEPT !.stations[p] = station]
        IN  /\ \A d \in DishIds :
                  LET r == StationManager_assignDishToStation(Manager, s, d)
                  IN  IF p = 0
                      THEN ~r.ret /\ r.m = Manager
                      ELSE /\ r.ret = assignDishToStation(stations[p], d).ret
                           /\ r.m = On(assignDishToStation(stations[p], d).station)
            /\ \A g \in Supplies :
                  LET r == replenishIngredientAtStation(Manager, s, g)
                  IN  IF p = 0
                      THEN ~r.ret /\ r.m = Manager
                      ELSE /\ r.ret
                           /\ r.m = On(replenishStationIngredients(stations[p], g))
            /\ \A n \in DishNames, heap \in Reads(stations, Menu) :
                  LET r == prepareDishAtStation(Manager, heap, s, n)
                  IN  IF p = 0
                      THEN ~r.ret /\ r.m = Manager
                      ELSE /\ r.ret = prepareDish(stations[p], heap, n).ret
                           /\ r.m = On(prepareDish(stations[p], heap, n).station)

\* C16 witness: two stations of one name, none of the other name; the front
\* one prepares a dish the second could not and takes a dish the second
\* already holds; calls naming the other station are refused.
C16_Witness ==
    \E s, o \in StationNames, n \in DishNames, d \in DishIds :
        /\ StationsNamed(stations, s) = {1, 2}
        /\ StationsNamed(stations, o) = {}
        /\ C3_NoDeallocatedDishInRoster
        /\ prepareDishAtStation(Manager, dish, s, n).ret
        /\ prepareDishAtStation(Manager, dish, s, n).m.stations[1] # stations[1]
        /\ ~prepareDish(stations[2], dish, n).ret
        /\ StationManager_assignDishToStation(Manager, s, d).ret
        /\ ~assignDishToStation(stations[2], d).ret
        /\ ~StationManager_assignDishToStation(Manager, o, d).ret
        /\ ~prepareDishAtStation(Manager, dish, o, n).ret

\* C17: add(station) always returns true, increases the length by exactly
\* one, places the station at the last index and leaves the existing
\* stations and their order unchanged, also when a station of the same name
\* is already in the collection.
C17_AddAppends ==
    \A s \in StationNames :
        LET r == addStation(stations, KitchenStation(s))
        IN  /\ r.ret
            /\ Len(r.list) = Len(stations) + 1
            /\ r.list[Len(r.list)] = KitchenStation(s)
            /\ SubSeq(r.list, 1, Len(stations)) = stations

\* C17 witness: a collection that already took a second station of one
\* name, its stations holding dishes or stock, takes one more of that name.
C17_Witness ==
    \E s \in StationNames :
        /\ StationsNamed(stations, s) = {1, 2}
        /\ stations[1] # stations[2]
        /\ stations[2] # KitchenStation(s)
        /\ addStation(stations, KitchenStation(s)).ret
        /\ addStation(stations, KitchenStation(s)).list
              = <<stations[1], stations[2], KitchenStation(s)>>

\* C18: find(name) returns the station at the smallest index whose name
\* equals name and returns not-found exactly when no station in the
\* collection has that name; it changes nothing (the call is const and
\* yields a pointer only).
C18_FindReturnsFirstNamed ==
    \A x \in StationNames :
        LET p == findStation(stations, x)
            named == StationsNamed(stations, x)
        IN  /\ (p = NullStation) <=> (named = {})
            /\ p # NullStation =>
                  /\ p \in named
                  /\ \A j \in named : p <= j
                  /\ stations[p].station_name = x

\* C18 witness: two stations of one name that differ stand behind a station
\* of another name; find returns the first of the two, and the front station
\* for the other name.
C18_Witness ==
    \E x, y \in StationNames :
        /\ StationsNamed(stations, x) = {2, 3}
        /\ stations[2] # stations[3]
        /\ findStation(stations, x) = 2
        /\ findStation(stations, y) = 1

\* C19: replenish(ingredient) on a station whose stock already has an entry
\* of the same name changes only that entry's quantity (adding
\* ingredient.quantity) and leaves that entry's requiredQuantity and price
\* and all other entries unchanged; when no entry has that name, it appends
\* the ingredient with all four fields as given and changes no existing
\* entry.
C19_ReplenishChangesOneQuantity ==
    \A i \in DOMAIN stations, g \in StockSupplies :
        LET station == stations[i]
            stock == station.ingredients_stock
            r == replenishStationIngredients(station, g)
            after == r.ingredients_stock
        IN  /\ r.dishes = station.dishes
            /\ r.station_name = station.station_name
            /\ IF g.name \in StockNames(stock)
               THEN /\ Len(after) = Len(stock)
                    /\ \A k \in DOMAIN stock :
                          after[k] = IF stock[k].name = g.name
                                     THEN Ingredient(stock[k].name,
                                            stock[k].quantity + g.quantity,
                                            stock[k].required_quantity,
                                            stock[k].price)
                                     ELSE stock[k]
               ELSE after = stock \o <<g>>

\* C19 witness: the second of two stock entries is replenished with a
\* supply of its name that differs from it in required quantity and price,
\* and gets the quantity only.
C19_Witness ==
    \E i \in DOMAIN stations, g \in StockSupplies :
        LET stock == stations[i].ingredients_stock
            after == replenishStationIngredients(stations[i], g).ingredients_stock
        IN  /\ Len(stock) = 2
            /\ stock[2].name = g.name
            /\ stock[2].required_quantity # g.required_quantity
            /\ stock[2].price # g.price
            /\ g.quantity > 0
            /\ after[1] = stock[1]
            /\ after[2] = [stock[2] EXCEPT !.quantity = @ + g.quantity]

\* C20: immediately after any prepare(dishName) that returns true, the
\* station's stock contains no entry whose quantity is 0.
C20_NoDepletedEntryAfterPrepare ==
    \A i \in DOMAIN stations, n \in DishNames :
        LET r == prepareDish(stations[i], dish, n)
        IN  r.ret =>
                \A k \in DOMAIN r.station.ingredients_stock :
                    r.station.ingredients_stock[k].quantity # 0

\* C20 witness: a prepare succeeds on a stock of two entries: one it takes
\* down to exactly 0, and one that was at 0 before and that the dish takes
\* nothing of; the stock is empty afterwards.
C20_Witness ==
    \E i \in DOMAIN stations, n \in DishNames, g, h \in IngredientNames :
        LET station == stations[i]
            stock == station.ingredients_stock
            r == prepareDish(station, dish, n)
        IN  /\ r.ret
            /\ g # h
            /\ h \in StockNames(stock) /\ QuantityOf(stock, h) = 0
            /\ QuantityOf(stock, g) > 0
            /\ DemandOf(station.dishes, dish, n, g) = QuantityOf(stock, g)
            /\ DemandOf(station.dishes, dish, n, h) = 0
            /\ r.station.ingredients_stock = <<>>

\* The ingredient names listed by the dishes named `dish_name` of a roster.
ListedBy(station, heap, dish_name) ==
    UNION {{heap[station.dishes[j]].ingredients[k].name :
                k \in DOMAIN heap[station.dishes[j]].ingredients} :
           j \in DishesNamed(station, heap, dish_name)}

C22_PrepareConsumesFirstDishOnly ==
    \A i \in DOMAIN stations, n \in DishNames :
        LET station == stations[i]
            r == prepareDish(station, dish, n)
        IN  (r.ret /\ Cardinality(DishesNamed(station, dish, n)) > 1)
                => r.station.ingredients_stock
                     = RemoveDepleted(
                          ConsumeDishes_First(station.ingredients_stock,
                                              station.dishes, dish, n))

\* C23: over any sequence of add, assignDish, merge, remove and collection
\* teardown (clear), no dish is deallocated more than once, including a dish
\* whose reference was assigned to two different stations.
C23_NoDishDeallocatedTwice == ~doubleFreed

====
